---- MODULE Spec2Model ----
(***************************************************************************)
(* Model of the echo server (src/src/main.rs): the startup of the          *)
(* dual-stack listening socket, the request information extractor          *)
(* get_request_info and the nine route handlers.                           *)
(*                                                                         *)
(* Text is modelled as a sequence of byte codes (0..255), so that the      *)
(* conversions of the program (HeaderValue::to_str, format!, the JSON      *)
(* serialisation) are computed byte by byte.  An Option<T> is a sequence   *)
(* of length 0 (None) or 1 (Some).                                         *)
(***************************************************************************)
EXTENDS Integers, Sequences, FiniteSets, TLC

VARIABLES phase, socket, syscalls, stdout, panic, tasks

vars == <<phase, socket, syscalls, stdout, panic, tasks>>

(***************************************************************************)
(* Bounds of the model.                                                    *)
(***************************************************************************)
\* Header lines of one request, in the specification of one connection.
MaxHeaderLines == 2
\* Requests handled concurrently, in the specification of the server.
MaxTasks == 2

(***************************************************************************)
(* Text and Option helpers.                                                *)
(***************************************************************************)
None == <<>>

Some(x) == <<x>>

\* The byte codes of the string literals of the program.
Lit(s) ==
    CASE s = "unknown" -> <<117, 110, 107, 110, 111, 119, 110>>
      [] s = "unavailable" -> <<117, 110, 97, 118, 97, 105, 108, 97, 98, 108, 101>>
      [] s = "null" -> <<110, 117, 108, 108>>
      [] s = "GET" -> <<71, 69, 84>>
      [] s = "HEAD" -> <<72, 69, 65, 68>>
      [] s = "::1" -> <<58, 58, 49>>
      [] s = "::ffff:192.0.2.7" -> <<58, 58, 102, 102, 102, 102, 58, 49, 57, 50, 46, 48, 46, 50, 46, 55>>
      [] s = "ip_addr" -> <<105, 112, 95, 97, 100, 100, 114>>
      [] s = "remote_host" -> <<114, 101, 109, 111, 116, 101, 95, 104, 111, 115, 116>>
      [] s = "user_agent" -> <<117, 115, 101, 114, 95, 97, 103, 101, 110, 116>>
      [] s = "port" -> <<112, 111, 114, 116>>
      [] s = "method" -> <<109, 101, 116, 104, 111, 100>>
      [] s = "encoding" -> <<101, 110, 99, 111, 100, 105, 110, 103>>
      [] s = "mime" -> <<109, 105, 109, 101>>
      [] s = "language" -> <<108, 97, 110, 103, 117, 97, 103, 101>>
      [] s = "referer" -> <<114, 101, 102, 101, 114, 101, 114>>
      [] s = "connection" -> <<99, 111, 110, 110, 101, 99, 116, 105, 111, 110>>
      [] s = "keep_alive" -> <<107, 101, 101, 112, 95, 97, 108, 105, 118, 101>>
      [] s = "charset" -> <<99, 104, 97, 114, 115, 101, 116>>
      [] s = "via" -> <<118, 105, 97>>
      [] s = "forwarded" -> <<102, 111, 114, 119, 97, 114, 100, 101, 100>>
      [] s = ": " -> <<58, 32>>

\* "\n", the byte that ends every line the handlers format.
NL == <<10>>

\* The decimal digits of n, as Display writes a u16.
RECURSIVE Decimal(_)
Decimal(n) ==
    IF n < 10 THEN <<48 + n>> ELSE Decimal(n \div 10) \o <<48 + (n % 10)>>

(***************************************************************************)
(* The remote address: SocketAddr of an accepted connection.  The socket   *)
(* is an IPv6 socket, so every address is an Ipv6Addr of eight 16-bit      *)
(* segments; an IPv4 client appears under the IPv4-mapped range ::ffff:/96.*)
(***************************************************************************)
Loopback6 == <<0, 0, 0, 0, 0, 0, 0, 1>>

\* ::ffff:192.0.2.7
Mapped4 == <<0, 0, 0, 0, 0, 65535, 49152, 519>>

\* Ipv6Addr::UNSPECIFIED
Unspecified6 == <<0, 0, 0, 0, 0, 0, 0, 0>>

is_ipv4_mapped(ip) ==
    /\ \A i \in 1..5 : ip[i] = 0
    /\ ip[6] = 65535

\* Display of the addresses of the model.
IpDisplay(ip) ==
    CASE ip = Loopback6 -> Lit("::1")
      [] ip = Mapped4 -> Lit("::ffff:192.0.2.7")

Addrs ==
    { [ip |-> Loopback6, port |-> 50000], [ip |-> Mapped4, port |-> 443] }

(***************************************************************************)
(* Requests.  The header map keeps the header lines in arrival order under *)
(* lower-case names; a value is any byte string the HTTP layer admits      *)
(* (tab, 32..126, 128..255).                                               *)
(***************************************************************************)
Routes ==
    {"/", "/ip", "/ua", "/lang", "/encoding", "/mime", "/forwarded", "/all", "/all.json"}

\* get(handler) dispatches GET, and HEAD, to the handler.
Methods == {"GET", "HEAD"}

\* The ten headers the program reads.
HeaderNameSeq ==
    <<"user-agent", "accept-encoding", "accept", "accept-language", "referer",
      "connection", "keep-alive", "accept-charset", "via", "forwarded">>

HeaderNames == { HeaderNameSeq[i] : i \in 1..Len(HeaderNameSeq) }

NameIndex(name) == CHOOSE i \in 1..Len(HeaderNameSeq) : HeaderNameSeq[i] = name

\* A"\<tab>b: upper and lower case, and the bytes JSON escapes
ValueText == <<65, 34, 92, 9, 98>>

\* A followed by the byte 0xC8: not visible ASCII
ValueNotText == <<65, 200>>

HeaderValues == { <<>>, ValueText, ValueNotText }

RECURSIVE SeqsUpTo(_, _)
SeqsUpTo(S, n) ==
    IF n = 0 THEN { <<>> }
    ELSE LET shorter == SeqsUpTo(S, n - 1)
         IN shorter \cup { Append(q, x) : q \in shorter, x \in S }

HeaderLines(names, values) == [name : names, value : values]

\* The header maps of at most n lines.  HeaderMap is keyed by name, so the
\* order of arrival matters only among the lines of one name: each map is
\* listed once, its names in the order of HeaderNameSeq.
HeaderMaps(n) ==
    { h \in SeqsUpTo(HeaderLines(HeaderNames, HeaderValues), n) :
        \A i \in 1..Len(h) : \A j \in i..Len(h) :
            NameIndex(h[i].name) <= NameIndex(h[j].name) }

\* The requests of one connection handled alone.
Requests ==
    [route : Routes, addr : Addrs, method : Methods, headers : HeaderMaps(MaxHeaderLines)]

\* The requests of the concurrent server.
ConcRequests ==
    [route : Routes, addr : Addrs, method : {"GET"},
     headers : { <<>>, <<[name |-> "user-agent", value |-> ValueText]>> }]

(***************************************************************************)
(* HeaderMap::get and HeaderValue::to_str.                                 *)
(***************************************************************************)
\* HeaderMap::get: the first value stored under the name.
headers_get(headers, name) ==
    LET at == { i \in 1..Len(headers) : headers[i].name = name }
    IN IF at = {} THEN None
       ELSE Some(headers[CHOOSE i \in at : \A j \in at : i <= j].value)

is_visible_ascii(b) == (b >= 32 /\ b < 127) \/ b = 9

\* Mutant of to_str_ok: a lossy conversion that never fails.
to_str_lossy(v) == Some(v)

\* Mutant of to_str_ok: the text is folded to lower case.
to_str_lowercase(v) ==
    IF \A i \in 1..Len(v) : is_visible_ascii(v[i])
    THEN Some([i \in 1..Len(v) |-> IF v[i] \in 65..90 THEN v[i] + 32 ELSE v[i]])
    ELSE None

\* v.to_str().ok(): the value as text, when every byte is visible ASCII.
to_str_ok(v) ==
    IF \A i \in 1..Len(v) : is_visible_ascii(v[i]) THEN Some(v) ELSE None

\* opt.and_then(f), for f == to_str_ok
and_then_to_str(opt) == IF opt = None THEN None ELSE to_str_ok(opt[1])

\* headers.get(name).and_then(|v| v.to_str().ok())
header_text(headers, name) == and_then_to_str(headers_get(headers, name))

unwrap_or(opt, d) == IF opt = None THEN d ELSE opt[1]

\* Mutant of unwrap_or_default: the default of the single-field handlers.
unwrap_or_unknown(opt) == unwrap_or(opt, Lit("unknown"))

unwrap_or_default(opt) == unwrap_or(opt, <<>>)

(***************************************************************************)
(* RequestInfo and get_request_info.                                       *)
(***************************************************************************)
\* The optional fields of RequestInfo, with the header each is read from.
HeaderOf(field) ==
    CASE field = "user_agent" -> "user-agent"
      [] field = "encoding" -> "accept-encoding"
      [] field = "mime" -> "accept"
      [] field = "language" -> "accept-language"
      [] field = "referer" -> "referer"
      [] field = "connection" -> "connection"
      [] field = "keep_alive" -> "keep-alive"
      [] field = "charset" -> "accept-charset"
      [] field = "via" -> "via"
      [] field = "forwarded" -> "forwarded"

OptionalFields ==
    {"user_agent", "encoding", "mime", "language", "referer", "connection",
     "keep_alive", "charset", "via", "forwarded"}

get_request_info(addr, req) ==
    [ ip_addr     |-> IpDisplay(addr.ip),
      remote_host |-> Lit("unavailable"),
      user_agent  |-> header_text(req.headers, "user-agent"),
      port        |-> addr.port,
      method      |-> Lit(req.method),
      encoding    |-> header_text(req.headers, "accept-encoding"),
      mime        |-> header_text(req.headers, "accept"),
      language    |-> header_text(req.headers, "accept-language"),
      referer     |-> header_text(req.headers, "referer"),
      connection  |-> header_text(req.headers, "connection"),
      keep_alive  |-> header_text(req.headers, "keep-alive"),
      charset     |-> header_text(req.headers, "accept-charset"),
      via         |-> header_text(req.headers, "via"),
      forwarded   |-> header_text(req.headers, "forwarded") ]

(***************************************************************************)
(* Responses.  A handler returns a String (200, text/plain) or Json(info)  *)
(* (200, application/json).                                                *)
(***************************************************************************)
TextResponse(body) ==
    [status |-> 200, content_type |-> "text/plain; charset=utf-8", body |-> body]

JsonResponse(body) ==
    [status |-> 200, content_type |-> "application/json", body |-> body]

\* format!("{}\n", x)
format_line(x) == x \o NL

\* One "name: value\n" line of the format string of all_handler.
all_line(name, value) == Lit(name) \o Lit(": ") \o value \o NL

\* The format! of all_handler, applied to the record.
all_format(info) ==
       all_line("ip_addr", info.ip_addr)
    \o all_line("remote_host", info.remote_host)
    \o all_line("user_agent", unwrap_or_default(info.user_agent))
    \o all_line("port", Decimal(info.port))
    \o all_line("language", unwrap_or_default(info.language))
    \o all_line("referer", unwrap_or_default(info.referer))
    \o all_line("connection", unwrap_or_default(info.connection))
    \o all_line("keep_alive", unwrap_or_default(info.keep_alive))
    \o all_line("method", info.method)
    \o all_line("encoding", unwrap_or_default(info.encoding))
    \o all_line("mime", unwrap_or_default(info.mime))
    \o all_line("charset", unwrap_or_default(info.charset))
    \o all_line("via", unwrap_or_default(info.via))
    \o all_line("forwarded", unwrap_or_default(info.forwarded))

(***************************************************************************)
(* Json(info): the derived Serialize of RequestInfo written by serde_json, *)
(* the fields in declaration order.                                        *)
(***************************************************************************)
HexDigit(d) == IF d < 10 THEN 48 + d ELSE 87 + d

\* The escape serde_json writes for one byte of a string.
json_escape(b) ==
    CASE b = 34 -> <<92, 34>>
      [] b = 92 -> <<92, 92>>
      [] b = 8 -> <<92, 98>>
      [] b = 9 -> <<92, 116>>
      [] b = 10 -> <<92, 110>>
      [] b = 12 -> <<92, 102>>
      [] b = 13 -> <<92, 114>>
      [] b < 32 /\ b \notin {8, 9, 10, 12, 13} ->
            <<92, 117, 48, 48, HexDigit(b \div 16), HexDigit(b % 16)>>
      [] OTHER -> <<b>>

RECURSIVE json_escape_all(_)
json_escape_all(s) ==
    IF s = <<>> THEN <<>> ELSE json_escape(Head(s)) \o json_escape_all(Tail(s))

json_string(s) == <<34>> \o json_escape_all(s) \o <<34>>

\* Mutant of json_option: None is written as the empty string.
json_option_empty(opt) == json_string(unwrap_or_default(opt))

\* An Option<String> field: null, or the string.
json_option(opt) == IF opt = None THEN Lit("null") ELSE json_string(opt[1])

json_member(name, value) == json_string(Lit(name)) \o <<58>> \o value

json_serialize(info) ==
       <<123>>
    \o json_member("ip_addr", json_string(info.ip_addr)) \o <<44>>
    \o json_member("remote_host", json_string(info.remote_host)) \o <<44>>
    \o json_member("user_agent", json_option(info.user_agent)) \o <<44>>
    \o json_member("port", Decimal(info.port)) \o <<44>>
    \o json_member("method", json_string(info.method)) \o <<44>>
    \o json_member("encoding", json_option(info.encoding)) \o <<44>>
    \o json_member("mime", json_option(info.mime)) \o <<44>>
    \o json_member("language", json_option(info.language)) \o <<44>>
    \o json_member("referer", json_option(info.referer)) \o <<44>>
    \o json_member("connection", json_option(info.connection)) \o <<44>>
    \o json_member("keep_alive", json_option(info.keep_alive)) \o <<44>>
    \o json_member("charset", json_option(info.charset)) \o <<44>>
    \o json_member("via", json_option(info.via)) \o <<44>>
    \o json_member("forwarded", json_option(info.forwarded))
    \o <<125>>

(***************************************************************************)
(* The handlers: the String each single-field handler returns.             *)
(***************************************************************************)
ip_handler(addr) == format_line(IpDisplay(addr.ip))

\* Mutant of ua_handler: the default of all_handler.
ua_handler_default_empty(req) ==
    format_line(unwrap_or_default(header_text(req.headers, "user-agent")))

ua_handler(req) ==
    LET user_agent == unwrap_or(header_text(req.headers, "user-agent"), Lit("unknown"))
    IN format_line(user_agent)

\* Mutant of lang_handler: the header of mime_handler is read.
lang_handler_reads_accept(req) ==
    format_line(unwrap_or(header_text(req.headers, "accept"), Lit("unknown")))

lang_handler(req) ==
    LET lang == unwrap_or(header_text(req.headers, "accept-language"), Lit("unknown"))
    IN format_line(lang)

encoding_handler(req) ==
    LET encoding == unwrap_or(header_text(req.headers, "accept-encoding"), Lit("unknown"))
    IN format_line(encoding)

mime_handler(req) ==
    LET mime == unwrap_or(header_text(req.headers, "accept"), Lit("unknown"))
    IN format_line(mime)

forwarded_handler(req) ==
    LET forwarded == unwrap_or(header_text(req.headers, "forwarded"), Lit("unknown"))
    IN format_line(forwarded)

\* The Router of main: the response of the handler the route names.
route_response(req) ==
    CASE req.route \in {"/", "/ip"} -> TextResponse(ip_handler(req.addr))
      [] req.route = "/ua" -> TextResponse(ua_handler(req))
      [] req.route = "/lang" -> TextResponse(lang_handler(req))
      [] req.route = "/encoding" -> TextResponse(encoding_handler(req))
      [] req.route = "/mime" -> TextResponse(mime_handler(req))
      [] req.route = "/forwarded" -> TextResponse(forwarded_handler(req))
      [] req.route = "/all" -> TextResponse(all_format(get_request_info(req.addr, req)))
      [] req.route = "/all.json" ->
            JsonResponse(json_serialize(get_request_info(req.addr, req)))

(***************************************************************************)
(* State.                                                                  *)
(*   phase     position of main: start, created, bound, listening,         *)
(*             serving, panicked                                           *)
(*   socket    None, or the TcpSocket: its IPV6_V6ONLY option, its local   *)
(*             address once bound, its backlog once listening              *)
(*   syscalls  the socket operations main has made, in order               *)
(*   stdout    the lines main has printed                                  *)
(*   panic     None, or the message of the expect/unwrap that failed       *)
(*   tasks     the request-handling tasks of the server runtime: position  *)
(*             in the handler, the request, the local `info`, the response *)
(*             returned, and the number of RequestInfo records built for   *)
(*             the request                                                 *)
(***************************************************************************)
Port == 80

Backlog == 1024

\* SocketAddr::from((Ipv6Addr::UNSPECIFIED, 80))
dual_addr == [ip |-> Unspecified6, port |-> Port]

TaskIds == 1..MaxTasks

Idle == [pc |-> "idle", req |-> None, info |-> None, resp |-> None, constructed |-> 0]

Init ==
    /\ phase = "start"
    /\ socket = None
    /\ syscalls = <<>>
    /\ stdout = <<>>
    /\ panic = None
    /\ tasks = [t \in TaskIds |-> Idle]

Panic(msg) ==
    /\ phase' = "panicked"
    /\ panic' = Some(msg)
    /\ tasks' = [t \in TaskIds |-> Idle]

(***************************************************************************)
(* main: TcpSocket::new_v6().expect(..).  The socket is created with the   *)
(* IPV6_V6ONLY option at the default of the host; main sets no option.     *)
(***************************************************************************)
main_new_v6 ==
    /\ phase = "start"
    /\ stdout' = Append(stdout, "Listening on dual-stack address: [::]:80")
    /\ \/ \E host_default \in BOOLEAN :
            /\ socket' = Some([only_v6 |-> host_default, local |-> None, backlog |-> None])
            /\ syscalls' = Append(syscalls, [call |-> "socket", ok |-> TRUE, arg |-> None])
            /\ phase' = "created"
            /\ UNCHANGED <<panic, tasks>>
       \/ /\ syscalls' = Append(syscalls, [call |-> "socket", ok |-> FALSE, arg |-> None])
          /\ Panic("failed to create IPv6 socket")
          /\ UNCHANGED socket

\* Mutant of main_bind: a failed bind falls back to another port.
main_bind_fallback ==
    /\ phase = "created"
    /\ \/ /\ socket' = Some([socket[1] EXCEPT !.local = Some(dual_addr)])
          /\ syscalls' = Append(syscalls, [call |-> "bind", ok |-> TRUE, arg |-> Some(dual_addr)])
       \/ /\ socket' = Some([socket[1] EXCEPT !.local = Some([dual_addr EXCEPT !.port = 8080])])
          /\ syscalls' = syscalls
                 \o <<[call |-> "bind", ok |-> FALSE, arg |-> Some(dual_addr)],
                      [call |-> "bind", ok |-> TRUE,
                       arg |-> Some([dual_addr EXCEPT !.port = 8080])]>>
    /\ phase' = "bound"
    /\ UNCHANGED <<stdout, panic, tasks>>

\* socket.bind(dual_addr).expect(..)
main_bind ==
    /\ phase = "created"
    /\ \/ /\ socket' = Some([socket[1] EXCEPT !.local = Some(dual_addr)])
          /\ syscalls' = Append(syscalls, [call |-> "bind", ok |-> TRUE, arg |-> Some(dual_addr)])
          /\ phase' = "bound"
          /\ UNCHANGED <<panic, tasks>>
       \/ /\ syscalls' = Append(syscalls, [call |-> "bind", ok |-> FALSE, arg |-> Some(dual_addr)])
          /\ Panic("failed to bind to dual-stack address")
          /\ UNCHANGED socket
    /\ UNCHANGED stdout

\* socket.listen(1024).expect(..), then the second println!
main_listen ==
    /\ phase = "bound"
    /\ \/ /\ socket' = Some([socket[1] EXCEPT !.backlog = Some(Backlog)])
          /\ syscalls' = Append(syscalls, [call |-> "listen", ok |-> TRUE, arg |-> Some(Backlog)])
          /\ stdout' = Append(stdout, "Dual-stack server running on [::]:80")
          /\ phase' = "listening"
          /\ UNCHANGED <<panic, tasks>>
       \/ /\ syscalls' = Append(syscalls, [call |-> "listen", ok |-> FALSE, arg |-> Some(Backlog)])
          /\ Panic("failed to listen on dual-stack socket")
          /\ UNCHANGED <<socket, stdout>>

\* axum::Server::from_tcp(listener.into_std().unwrap()).unwrap().serve(..)
main_serve ==
    /\ phase = "listening"
    /\ \/ /\ phase' = "serving"
          /\ UNCHANGED <<panic, tasks>>
       \/ Panic("called Result::unwrap() on an Err value")
    /\ UNCHANGED <<socket, syscalls, stdout>>

\* .serve(..).await.unwrap(): the server future ends with an error.
main_serve_error ==
    /\ phase = "serving"
    /\ Panic("called Result::unwrap() on an Err value")
    /\ UNCHANGED <<socket, syscalls, stdout>>

(***************************************************************************)
(* The server runtime: a connection is accepted and its request routed to  *)
(* a handler, in a task of its own.  A client of the IPv4-mapped range     *)
(* reaches the socket only when IPV6_V6ONLY is off.                        *)
(***************************************************************************)
Accept(t, requests) ==
    /\ phase = "serving"
    /\ tasks[t].pc = "idle"
    /\ \E r \in requests :
          /\ is_ipv4_mapped(r.addr.ip) => ~socket[1].only_v6
          /\ tasks' = [tasks EXCEPT ![t] = [Idle EXCEPT !.pc = "handler", !.req = r]]
    /\ UNCHANGED <<phase, socket, syscalls, stdout, panic>>

\* A single-field handler runs: the task holds the response it returned.
Return(t, routes, body) ==
    /\ phase = "serving"
    /\ tasks[t].pc = "handler"
    /\ tasks[t].req.route \in routes
    /\ tasks' = [tasks EXCEPT ![t].resp = Some(TextResponse(body)), ![t].pc = "respond"]
    /\ UNCHANGED <<phase, socket, syscalls, stdout, panic>>

call_ip_handler(t) == Return(t, {"/", "/ip"}, ip_handler(tasks[t].req.addr))

call_ua_handler(t) == Return(t, {"/ua"}, ua_handler(tasks[t].req))

call_lang_handler(t) == Return(t, {"/lang"}, lang_handler(tasks[t].req))

call_encoding_handler(t) == Return(t, {"/encoding"}, encoding_handler(tasks[t].req))

call_mime_handler(t) == Return(t, {"/mime"}, mime_handler(tasks[t].req))

call_forwarded_handler(t) == Return(t, {"/forwarded"}, forwarded_handler(tasks[t].req))

\* let info = get_request_info(addr, &req);  in all_handler and all_json_handler
Extract(t, route, next_pc) ==
    /\ phase = "serving"
    /\ tasks[t].pc = "handler"
    /\ tasks[t].req.route = route
    /\ tasks' = [tasks EXCEPT
                   ![t].info = Some(get_request_info(tasks[t].req.addr, tasks[t].req)),
                   ![t].constructed = @ + 1,
                   ![t].pc = next_pc]
    /\ UNCHANGED <<phase, socket, syscalls, stdout, panic>>

\* Mutant of local_info: one slot shared by the tasks holds the record.
shared_info(t) ==
    LET holders == { u \in TaskIds : tasks[u].info # None }
    IN tasks[CHOOSE u \in holders : \A v \in holders : u <= v].info[1]

\* The local `info` of the handler running in task t.
local_info(t) == tasks[t].info[1]

all_handler_extract(t) == Extract(t, "/all", "all_format")

\* Mutant of all_handler_format: the record outlives the response.
all_handler_format_keeps_info(t) ==
    /\ phase = "serving"
    /\ tasks[t].pc = "all_format"
    /\ tasks' = [tasks EXCEPT
                   ![t].resp = Some(TextResponse(all_format(local_info(t)))),
                   ![t].pc = "respond"]
    /\ UNCHANGED <<phase, socket, syscalls, stdout, panic>>

\* format!(..) consumes info and is the String all_handler returns.
all_handler_format(t) ==
    /\ phase = "serving"
    /\ tasks[t].pc = "all_format"
    /\ tasks' = [tasks EXCEPT
                   ![t].resp = Some(TextResponse(all_format(local_info(t)))),
                   ![t].info = None,
                   ![t].pc = "respond"]
    /\ UNCHANGED <<phase, socket, syscalls, stdout, panic>>

all_json_handler_extract(t) == Extract(t, "/all.json", "json_serialize")

\* Json(info) consumes info and is serialised into the response.
all_json_handler_serialize(t) ==
    /\ phase = "serving"
    /\ tasks[t].pc = "json_serialize"
    /\ tasks' = [tasks EXCEPT
                   ![t].resp = Some(JsonResponse(json_serialize(local_info(t)))),
                   ![t].info = None,
                   ![t].pc = "respond"]
    /\ UNCHANGED <<phase, socket, syscalls, stdout, panic>>

\* The response is written to the connection and the task ends.
Complete(t) ==
    /\ phase = "serving"
    /\ tasks[t].pc = "respond"
    /\ tasks' = [tasks EXCEPT ![t] = Idle]
    /\ UNCHANGED <<phase, socket, syscalls, stdout, panic>>

Startup ==
    \/ main_new_v6
    \/ main_bind
    \/ main_listen
    \/ main_serve
    \/ main_serve_error

Handle(t) ==
    \/ call_ip_handler(t)
    \/ call_ua_handler(t)
    \/ call_lang_handler(t)
    \/ call_encoding_handler(t)
    \/ call_mime_handler(t)
    \/ call_forwarded_handler(t)
    \/ all_handler_extract(t)
    \/ all_handler_format(t)
    \/ all_json_handler_extract(t)
    \/ all_json_handler_serialize(t)
    \/ Complete(t)

\* The server: up to MaxTasks requests handled concurrently.
Next ==
    \/ Startup
    \/ \E t \in TaskIds : Accept(t, ConcRequests)
    \/ \E t \in TaskIds : Handle(t)

Spec == Init /\ [][Next]_vars

\* One connection at a time, over every request of the bounds.
NextSerial ==
    \/ Startup
    \/ Accept(1, Requests)
    \/ Handle(1)

SpecSerial == Init /\ [][NextSerial]_vars

(***************************************************************************)
(* Vocabulary of the properties.  These definitions read a request and a   *)
(* response on their own: the header lines in arrival order, the lines of  *)
(* a text body, the members of a JSON body.                                *)
(***************************************************************************)
Responded(t) == tasks[t].pc = "respond"

Request(t) == tasks[t].req

Response(t) == tasks[t].resp[1]

\* The request carries a header line of this name.
Carries(req, name) == \E i \in 1..Len(req.headers) : req.headers[i].name = name

\* The value of the first line of this name, for a request that carries one.
RECURSIVE ArrivalFirst(_, _)
ArrivalFirst(lines, name) ==
    IF Head(lines).name = name THEN Head(lines).value
    ELSE ArrivalFirst(Tail(lines), name)

\* Valid text: visible ASCII and tab.
IsText(value) == \A i \in 1..Len(value) : value[i] \in (32..126) \cup {9}

CarriesText(req, name) ==
    Carries(req, name) /\ IsText(ArrivalFirst(req.headers, name))

CarriesNotText(req, name) ==
    Carries(req, name) /\ ~IsText(ArrivalFirst(req.headers, name))

\* The request without any line of this name.
WithoutHeader(req, name) ==
    [req EXCEPT !.headers = SelectSeq(@, LAMBDA l : l.name # name)]

\* The request with one more line: the header, with an empty value.
WithEmptyHeader(req, name) ==
    [req EXCEPT !.headers = Append(@, [name |-> name, value |-> <<>>])]

\* The header a single-field route reports.
RouteHeader(route) ==
    CASE route = "/ua" -> "user-agent"
      [] route = "/lang" -> "accept-language"
      [] route = "/encoding" -> "accept-encoding"
      [] route = "/mime" -> "accept"
      [] route = "/forwarded" -> "forwarded"

\* The field of RequestInfo a single-field route reports.
RouteField(route) ==
    CASE route = "/ua" -> "user_agent"
      [] route = "/lang" -> "language"
      [] route = "/encoding" -> "encoding"
      [] route = "/mime" -> "mime"
      [] route = "/forwarded" -> "forwarded"

HeaderRoutes == {"/ua", "/lang", "/encoding", "/mime", "/forwarded"}

AggregateRoutes == {"/all", "/all.json"}

\* The lines of a text, each without the newline that ends it.
RECURSIVE SplitLines(_)
SplitLines(text) ==
    IF text = <<>> THEN {}
    ELSE LET ends == { i \in 1..Len(text) : text[i] = 10 }
             stop == IF ends = {} THEN Len(text) + 1
                     ELSE CHOOSE i \in ends : \A j \in ends : i <= j
         IN { SubSeq(text, 1, stop - 1) } \cup SplitLines(SubSeq(text, stop + 1, Len(text)))

\* A JSON value: null, a string or a number.
JNull == [kind |-> "null", text |-> <<>>, num |-> 0]

JString(text) == [kind |-> "string", text |-> text, num |-> 0]

JNumber(n) == [kind |-> "number", text |-> <<>>, num |-> n]

JAbsent == [kind |-> "absent", text |-> <<>>, num |-> 0]

HexValue(c) == IF c \in 48..57 THEN c - 48 ELSE IF c \in 97..102 THEN c - 87 ELSE c - 55

\* The character a two-byte escape stands for.
Unescape(c) ==
    CASE c = 98 -> 8
      [] c = 102 -> 12
      [] c = 110 -> 10
      [] c = 114 -> 13
      [] c = 116 -> 9
      [] OTHER -> c

\* Reads a JSON string from position i, after its opening quote.
RECURSIVE ScanString(_, _, _)
ScanString(s, i, acc) ==
    IF s[i] = 34 THEN [val |-> acc, next |-> i + 1]
    ELSE IF s[i] = 92
         THEN IF s[i + 1] = 117
              THEN ScanString(s, i + 6,
                              Append(acc, 16 * HexValue(s[i + 4]) + HexValue(s[i + 5])))
              ELSE ScanString(s, i + 2, Append(acc, Unescape(s[i + 1])))
         ELSE ScanString(s, i + 1, Append(acc, s[i]))

RECURSIVE ScanNumber(_, _, _)
ScanNumber(s, i, acc) ==
    IF i <= Len(s) /\ s[i] \in 48..57
    THEN ScanNumber(s, i + 1, 10 * acc + (s[i] - 48))
    ELSE [val |-> acc, next |-> i]

ParseValue(s, i) ==
    IF s[i] = 34
    THEN LET r == ScanString(s, i + 1, <<>>) IN [val |-> JString(r.val), next |-> r.next]
    ELSE IF SubSeq(s, i, i + 3) = <<110, 117, 108, 108>>
         THEN [val |-> JNull, next |-> i + 4]
         ELSE LET r == ScanNumber(s, i, 0) IN [val |-> JNumber(r.val), next |-> r.next]

\* Reads the members of a JSON object from position i, the quote of a key.
RECURSIVE ParseMembers(_, _, _)
ParseMembers(s, i, acc) ==
    LET key == ScanString(s, i + 1, <<>>)
        v == ParseValue(s, key.next + 1)
        members == Append(acc, [key |-> key.val, val |-> v.val])
    IN IF s[v.next] = 44 THEN ParseMembers(s, v.next + 1, members) ELSE members

\* The members of the JSON object a body holds, in order.
ParseObject(body) == ParseMembers(body, 2, <<>>)

\* The value of the member of this name.
JsonGet(members, name) ==
    LET at == { i \in 1..Len(members) : members[i].key = name }
    IN IF at = {} THEN JAbsent ELSE members[CHOOSE i \in at : TRUE].val

(***************************************************************************)
(* C1.  On a single-field route (/ua, /lang, /encoding, /mime,             *)
(* /forwarded), a request that does not carry the header the route reports *)
(* is answered with exactly "unknown" and one newline, whatever other      *)
(* headers it carries.                                                     *)
(***************************************************************************)
C1_MissingHeaderIsUnknown ==
    \A t \in TaskIds :
        ( /\ Responded(t)
          /\ Request(t).route \in HeaderRoutes
          /\ ~Carries(Request(t), RouteHeader(Request(t).route)) )
        => /\ Response(t).status = 200
           /\ Response(t).body = <<117, 110, 107, 110, 111, 119, 110, 10>>

\* /ua has answered a request that carries other headers and no User-Agent.
C1_Witness ==
    \E t \in TaskIds :
        /\ Responded(t)
        /\ Request(t).route = "/ua"
        /\ ~Carries(Request(t), "user-agent")
        /\ Len(Request(t).headers) = 2

(***************************************************************************)
(* C2.  For each of the ten optional fields, when the request does not     *)
(* carry the header of the field, the /all body has the line               *)
(* "<field>: " with an empty value, and no line gives the field the value  *)
(* "unknown".                                                              *)
(***************************************************************************)
C2_AllMissingHeaderIsEmpty ==
    \A t \in TaskIds :
        (Responded(t) /\ Request(t).route = "/all")
        => LET lines == SplitLines(Response(t).body)
           IN \A f \in OptionalFields :
                ~Carries(Request(t), HeaderOf(f))
                => /\ (Lit(f) \o <<58, 32>>) \in lines
                   /\ (Lit(f) \o <<58, 32>> \o Lit("unknown")) \notin lines

\* /all has answered a request that carries some header and not User-Agent.
C2_Witness ==
    \E t \in TaskIds :
        /\ Responded(t)
        /\ Request(t).route = "/all"
        /\ ~Carries(Request(t), "user-agent")
        /\ CarriesText(Request(t), "accept")

(***************************************************************************)
(* C3.  For each of the ten optional fields, when the request does not     *)
(* carry the header of the field, the member of the /all.json record is    *)
(* null, neither the empty string nor "unknown"; and the record differs    *)
(* from the record of the same request with the header present and empty.  *)
(***************************************************************************)
C3_JsonMissingHeaderIsNull ==
    \A t \in TaskIds :
        (Responded(t) /\ Request(t).route = "/all.json")
        => LET record == ParseObject(Response(t).body)
           IN \A f \in OptionalFields :
                ~Carries(Request(t), HeaderOf(f))
                => LET member == JsonGet(record, Lit(f))
                       other == route_response(WithEmptyHeader(Request(t), HeaderOf(f)))
                   IN /\ member = JNull
                      /\ member # JString(<<>>)
                      /\ member # JString(Lit("unknown"))
                      /\ other.body # Response(t).body

\* /all.json has answered a request that carries an empty Accept and no Referer.
C3_Witness ==
    \E t \in TaskIds :
        /\ Responded(t)
        /\ Request(t).route = "/all.json"
        /\ ~Carries(Request(t), "referer")
        /\ Carries(Request(t), "accept")
        /\ ArrivalFirst(Request(t).headers, "accept") = <<>>

(***************************************************************************)
(* C4, as claimed.  For every optional header the request carries, the     *)
(* member of the /all.json record is the value of the header, verbatim: a  *)
(* header that is present never yields null.                               *)
(***************************************************************************)
C4_PresentHeaderVerbatim ==
    \A t \in TaskIds :
        (Responded(t) /\ Request(t).route = "/all.json")
        => LET record == ParseObject(Response(t).body)
           IN \A f \in OptionalFields :
                Carries(Request(t), HeaderOf(f))
                => JsonGet(record, Lit(f))
                     = JString(ArrivalFirst(Request(t).headers, HeaderOf(f)))

(***************************************************************************)
(* C4, amended.  For every optional header the request carries with a      *)
(* value that is valid text (visible ASCII and tab), the member of the     *)
(* /all.json record is that value, verbatim, and is not null.              *)
(***************************************************************************)
C4_TextHeaderVerbatim ==
    \A t \in TaskIds :
        (Responded(t) /\ Request(t).route = "/all.json")
        => LET record == ParseObject(Response(t).body)
           IN \A f \in OptionalFields :
                CarriesText(Request(t), HeaderOf(f))
                => /\ JsonGet(record, Lit(f))
                        = JString(ArrivalFirst(Request(t).headers, HeaderOf(f)))
                   /\ JsonGet(record, Lit(f)) # JNull

\* /all.json has answered a request whose Accept-Language mixes case and
\* holds a quote, a backslash and a tab.
C4_Witness ==
    \E t \in TaskIds :
        /\ Responded(t)
        /\ Request(t).route = "/all.json"
        /\ Carries(Request(t), "accept-language")
        /\ ArrivalFirst(Request(t).headers, "accept-language") = ValueText

(***************************************************************************)
(* C5.  A header whose value is not valid text is handled as if the header *)
(* were absent: the response, on every route, is the normal response (200) *)
(* of the same request without the header, and the field of the            *)
(* RequestInfo built for it is null.                                       *)
(***************************************************************************)
C5_NotTextIsAbsent ==
    \A t \in TaskIds : \A f \in OptionalFields :
        (tasks[t].pc # "idle" /\ CarriesNotText(Request(t), HeaderOf(f)))
        => /\ tasks[t].info # None => tasks[t].info[1][f] = None
           /\ Responded(t)
              => /\ Response(t).status = 200
                 /\ Response(t) = route_response(WithoutHeader(Request(t), HeaderOf(f)))
                 /\ Request(t).route \in HeaderRoutes /\ RouteField(Request(t).route) = f
                    => Response(t).body = Lit("unknown") \o <<10>>
                 /\ Request(t).route = "/all"
                    => (Lit(f) \o <<58, 32>>) \in SplitLines(Response(t).body)

\* /ua has answered a request whose User-Agent is not valid text.
C5_Witness ==
    \E t \in TaskIds :
        /\ Responded(t)
        /\ Request(t).route = "/ua"
        /\ CarriesNotText(Request(t), "user-agent")

(***************************************************************************)
(* C6.  Startup makes the socket operations create, bind, listen in that   *)
(* order, each once; requests are handled only after the three succeeded;  *)
(* a step that fails is the last one made, the process has panicked and    *)
(* handles nothing; and no port other than 80 is ever bound.               *)
(***************************************************************************)
C6_StartupAllOrNothing ==
    /\ \A i \in 1..Len(syscalls) :
          /\ i <= 3
          /\ syscalls[i].call = <<"socket", "bind", "listen">>[i]
          /\ syscalls[i].call = "bind" => syscalls[i].arg[1].port = 80
          /\ ~syscalls[i].ok => (i = Len(syscalls) /\ phase = "panicked")
    /\ socket # None /\ socket[1].local # None => socket[1].local[1].port = 80
    /\ (phase = "serving" \/ \E t \in TaskIds : tasks[t].pc # "idle")
       => /\ phase = "serving"
          /\ Len(syscalls) = 3
          /\ \A i \in 1..3 : syscalls[i].ok
    /\ phase = "panicked" => \A t \in TaskIds : tasks[t].pc = "idle"

\* The bind has failed.
C6_Witness ==
    /\ phase = "panicked"
    /\ Len(syscalls) = 2
    /\ ~syscalls[2].ok
    /\ panic = Some("failed to bind to dual-stack address")

(***************************************************************************)
(* C7, as claimed.  Once the socket listens, IPv6-only mode has been       *)
(* switched off on it by an explicit socket operation made before the      *)
(* bind, so the socket does not have the mode whatever the host's default. *)
(***************************************************************************)
C7_V6OnlyDisabledBeforeBind ==
    phase \in {"listening", "serving"}
    => /\ \E i \in 1..Len(syscalls) :
             /\ syscalls[i].call = "setsockopt"
             /\ \A j \in 1..Len(syscalls) : syscalls[j].call = "bind" => i < j
       /\ ~socket[1].only_v6

C9_ResponseOfOwnRequest ==
    \A t \in TaskIds :
        Responded(t)
        => /\ Response(t) = route_response(Request(t))
           /\ \A u \in TaskIds :
                (Responded(u) /\ Request(u) = Request(t)) => Response(u) = Response(t)

\* /all has answered one request while a task of lower number holds the
\* record of a different request.
C9_Witness ==
    \E t, u \in TaskIds :
        /\ u < t
        /\ Responded(t)
        /\ Request(t).route = "/all"
        /\ tasks[u].info # None
        /\ Request(u).addr # Request(t).addr
        /\ Request(u).headers # Request(t).headers

(***************************************************************************)
(* C10.  The body of every single-field route is the field of the record   *)
(* get_request_info builds for the same request (ip_addr for / and /ip),   *)
(* with "unknown" when the field is null, followed by one newline.         *)
(***************************************************************************)
C10_SingleFieldFromRecord ==
    \A t \in TaskIds :
        (Responded(t) /\ Request(t).route \notin AggregateRoutes)
        => LET info == get_request_info(Request(t).addr, Request(t))
               field == IF Request(t).route \in {"/", "/ip"}
                        THEN Some(info.ip_addr)
                        ELSE info[RouteField(Request(t).route)]
           IN Response(t).body
                = (IF field = None THEN Lit("unknown") ELSE field[1]) \o <<10>>

\* /lang has answered a request that carries Accept-Language and Accept.
C10_Witness ==
    \E t \in TaskIds :
        /\ Responded(t)
        /\ Request(t).route = "/lang"
        /\ CarriesText(Request(t), "accept-language")
        /\ Carries(Request(t), "accept")
        /\ ArrivalFirst(Request(t).headers, "accept")
             # ArrivalFirst(Request(t).headers, "accept-language")

====
